---- MODULE Spec2Model ----
(***************************************************************************)
(* Model of rollingBall (src/src/rollingBall.ts): the rolling-ball         *)
(* baseline of a one-dimensional spectrum.  One invocation is one          *)
(* behaviour: the two argument checks, the allocation of the three         *)
(* Float64Array buffers, the destructuring of the options with their       *)
(* defaults, and the three loops, one step per loop iteration.             *)
(*                                                                         *)
(* Numbers.  The buffers are Float64Array and the mean is computed in      *)
(* IEEE-754 binary floating point (round to nearest, ties to even).  The   *)
(* model keeps that arithmetic but with a MantissaBits-bit significand     *)
(* instead of 53 bits: a value is an integer count of the smallest         *)
(* representable step, and every sum and quotient is rounded to the        *)
(* nearest value with at most MantissaBits significant bits.  Comparisons  *)
(* (min, max) are exact on such values, as they are on doubles.            *)
(*                                                                         *)
(* Library helpers.  xMinValue, xMaxValue and xMean are imported from      *)
(* ml-spectra-processing (line 3).  There, xMinValue(array, {fromIndex,    *)
(* toIndex}) and xMaxValue clamp both indices into 0..length-1             *)
(* (xGetFromToIndex) and scan  for (i = fromIndex+1; i <= toIndex; i++):   *)
(* toIndex is INCLUSIVE.  xMean(array) adds the elements left to right     *)
(* and divides by their number.  TypedArray.subarray(begin, end) excludes  *)
(* end.                                                                    *)
(***************************************************************************)
EXTENDS Integers, Sequences, FiniteSets, TLC

\* ------------------------------------------------------------------ bounds
MaxLen == 4          \* every spectrum over Values up to this length
MaxLongLen == 13     \* alternating spectra up to this length
MaxWindow == 2       \* supplied windowM / windowS range over 0..MaxWindow
MantissaBits == 3    \* significand width of the floating-point format

\* The spectrum's values, in units of the format's smallest step (1/8 here):
\* -1, 1 and 6, each exactly representable.
Values == {-8, 8, 48}

\* ----------------------------------------------------------- plain helpers
Max(a, b) == IF a >= b THEN a ELSE b
Min(a, b) == IF a <= b THEN a ELSE b

RECURSIVE Pow2(_)
Pow2(n) == IF n = 0 THEN 1 ELSE 2 * Pow2(n - 1)

\* --------------------------------------------------- floating-point numbers
\* The least e >= 0 with p / q < 2^(MantissaBits + e): the binade of p / q.
RECURSIVE Binade(_, _, _)
Binade(p, q, e) ==
    IF p < q * Pow2(MantissaBits + e) THEN e ELSE Binade(p, q, e + 1)

\* p / q (p >= 0, q > 0) rounded to the nearest representable value, ties to
\* the even significand.
RoundNonNeg(p, q) ==
    LET u == Pow2(Binade(p, q, 0))
        d == q * u
        m == p \div d
        r == p - m * d
    IN  IF 2 * r < d THEN m * u
        ELSE IF 2 * r > d THEN (m + 1) * u
        ELSE IF m % 2 = 0 THEN m * u ELSE (m + 1) * u

FloatRound(p, q) == IF p < 0 THEN -RoundNonNeg(-p, q) ELSE RoundNonNeg(p, q)

FloatAdd(a, b) == FloatRound(a + b, 1)
FloatDiv(a, k) == FloatRound(a, k)

\* Math.round: the nearest integer, halves upwards; the argument is num / den.
MathRound(num, den) == (2 * num + den) \div (2 * den)

\* ---------------------------------------------------------- library helpers
\* Indices are 0-based as in the code; array[j + 1] is the code's array[j].
xGetFromToIndex(array, fromIndex, toIndex) ==
    LET n  == Len(array)
        f0 == IF fromIndex < 0 THEN 0 ELSE fromIndex
        t0 == IF toIndex < 0 THEN 0 ELSE toIndex
        f1 == IF f0 >= n THEN n - 1 ELSE f0
        t1 == IF t0 >= n THEN n - 1 ELSE t0
    IN  IF f1 > t1 THEN [fromIndex |-> t1, toIndex |-> f1]
                   ELSE [fromIndex |-> f1, toIndex |-> t1]

RECURSIVE MinLoop(_, _, _, _)
MinLoop(array, j, toIndex, minValue) ==
    IF j > toIndex THEN minValue
    ELSE MinLoop(array, j + 1, toIndex,
                 IF array[j + 1] < minValue THEN array[j + 1] ELSE minValue)

xMinValue(array, fromIndex, toIndex) ==
    LET r == xGetFromToIndex(array, fromIndex, toIndex)
    IN  MinLoop(array, r.fromIndex + 1, r.toIndex, array[r.fromIndex + 1])

RECURSIVE MaxLoop(_, _, _, _)
MaxLoop(array, j, toIndex, maxValue) ==
    IF j > toIndex THEN maxValue
    ELSE MaxLoop(array, j + 1, toIndex,
                 IF array[j + 1] > maxValue THEN array[j + 1] ELSE maxValue)

xMaxValue(array, fromIndex, toIndex) ==
    LET r == xGetFromToIndex(array, fromIndex, toIndex)
    IN  MaxLoop(array, r.fromIndex + 1, r.toIndex, array[r.fromIndex + 1])

RECURSIVE SumLoop(_, _, _)
SumLoop(array, j, sumValue) ==
    IF j > Len(array) - 1 THEN sumValue
    ELSE SumLoop(array, j + 1, FloatAdd(sumValue, array[j + 1]))

xMean(array) == FloatDiv(SumLoop(array, 1, array[1]), Len(array))

\* TypedArray.prototype.subarray(begin, end): end exclusive.
subarray(array, begin, end) == SubSeq(array, begin + 1, Min(end, Len(array)))

isAnyArray(value) == value.kind = "array"

\* ------------------------------------------------------------------- state
VARIABLES
    spectrum,      \* the argument: [kind, data]; data is the array's content
    options,       \* the argument: a function on a subset of {"windowM","windowS"}
    pc,            \* the position in rollingBall
    i,             \* the running loop index
    numberPoints,
    windowM,
    windowS,
    minima,
    maxima,
    baseline,
    thrown,        \* the exception thrown, "" when none
    returned       \* the returned array, <<>> before the return

vars == <<spectrum, options, pc, i, numberPoints, windowM, windowS,
          minima, maxima, baseline, thrown, returned>>

NotArrayError == "Error: Spectrum must be an array"
EmptyError == "TypeError: Spectrum must not be empty"

RECURSIVE Alternating(_, _, _)
Alternating(n, a, b) ==
    IF n = 0 THEN <<>> ELSE <<a>> \o Alternating(n - 1, b, a)

ShortSpectra == UNION {[1..n -> Values] : n \in 0..MaxLen}
LongSpectra ==
    {Alternating(n, a, b) : n \in (MaxLen + 1)..MaxLongLen, a \in Values, b \in Values}

Arguments ==
    {[kind |-> "null", data |-> <<>>], [kind |-> "notArray", data |-> <<>>]}
    \cup {[kind |-> "array", data |-> s] : s \in ShortSpectra \cup LongSpectra}

OptionSets ==
    UNION {[S -> 0..MaxWindow] : S \in SUBSET {"windowM", "windowS"}}

Zeros(n) == [k \in 1..n |-> 0]

Init ==
    /\ spectrum \in Arguments
    /\ options \in OptionSets
    /\ pc = "checkArray"
    /\ i = 0
    /\ numberPoints = 0
    /\ windowM = 0
    /\ windowS = 0
    /\ minima = <<>>
    /\ maxima = <<>>
    /\ baseline = <<>>
    /\ thrown = ""
    /\ returned = <<>>

\* ----------------------------------------------------------------- actions
\* line 36-38
CheckArray ==
    /\ pc = "checkArray"
    /\ IF ~isAnyArray(spectrum)
       THEN pc' = "thrown" /\ thrown' = NotArrayError
       ELSE pc' = "checkEmpty" /\ thrown' = thrown
    /\ UNCHANGED <<spectrum, options, i, numberPoints, windowM, windowS,
                   minima, maxima, baseline, returned>>

CheckEmptyMissing ==
    /\ pc = "checkEmpty"
    /\ pc' = "allocate"
    /\ UNCHANGED <<spectrum, options, i, numberPoints, windowM, windowS,
                   minima, maxima, baseline, thrown, returned>>

\* line 40-42
CheckEmpty ==
    /\ pc = "checkEmpty"
    /\ IF Len(spectrum.data) = 0
       THEN pc' = "thrown" /\ thrown' = EmptyError
       ELSE pc' = "allocate" /\ thrown' = thrown
    /\ UNCHANGED <<spectrum, options, i, numberPoints, windowM, windowS,
                   minima, maxima, baseline, returned>>

AllocateShort ==
    /\ pc = "allocate"
    /\ numberPoints' = Len(spectrum.data)
    /\ maxima' = Zeros(Len(spectrum.data))
    /\ minima' = Zeros(Len(spectrum.data))
    /\ baseline' = Zeros(Len(spectrum.data) - 1)
    /\ pc' = "defaults"
    /\ UNCHANGED <<spectrum, options, i, windowM, windowS, thrown, returned>>

\* line 44-47
Allocate ==
    /\ pc = "allocate"
    /\ numberPoints' = Len(spectrum.data)
    /\ maxima' = Zeros(Len(spectrum.data))
    /\ minima' = Zeros(Len(spectrum.data))
    /\ baseline' = Zeros(Len(spectrum.data))
    /\ pc' = "defaults"
    /\ UNCHANGED <<spectrum, options, i, windowM, windowS, thrown, returned>>

\* line 52: Math.round(numberPoints * 0.04).  numberPoints * 0.04 is never
\* within 0.02 of a half, so the double product rounds as the exact one.
DefaultWindowM(n) == MathRound(n * 4, 100)

DefaultWindowSAsM(n) == MathRound(n * 4, 100)

\* line 53: Math.round(numberPoints * 0.08)
DefaultWindowS(n) == MathRound(n * 8, 100)

\* line 51-54
Defaults ==
    /\ pc = "defaults"
    /\ windowM' = IF "windowM" \in DOMAIN options
                  THEN options["windowM"] ELSE DefaultWindowM(numberPoints)
    /\ windowS' = IF "windowS" \in DOMAIN options
                  THEN options["windowS"] ELSE DefaultWindowS(numberPoints)
    /\ pc' = "minima"
    /\ i' = 0
    /\ UNCHANGED <<spectrum, options, numberPoints, minima, maxima, baseline,
                   thrown, returned>>

\* line 58-64
MinimaValue(k) ==
    LET windowLeft  == Max(0, k - windowM)
        windowRight == Min(k + windowM + 1, Len(spectrum.data))
    IN  xMinValue(spectrum.data, windowLeft, windowRight)

\* line 57-65, one iteration
MinimaStep ==
    /\ pc = "minima"
    /\ i < Len(spectrum.data)
    /\ minima' = [minima EXCEPT ![i + 1] = MinimaValue(i)]
    /\ i' = i + 1
    /\ UNCHANGED <<spectrum, options, pc, numberPoints, windowM, windowS,
                   maxima, baseline, thrown, returned>>

\* line 57, the loop's exit; line 68, let i = 0
MinimaExit ==
    /\ pc = "minima"
    /\ ~(i < Len(spectrum.data))
    /\ pc' = "maxima"
    /\ i' = 0
    /\ UNCHANGED <<spectrum, options, numberPoints, windowM, windowS,
                   minima, maxima, baseline, thrown, returned>>

\* line 69-74
MaximaValue(k) ==
    LET windowLeft  == Max(0, k - windowM)
        windowRight == Min(k + windowM + 1, Len(minima))
    IN  xMaxValue(minima, windowLeft, windowRight)

MaximaStepInPlace ==
    /\ pc = "maxima"
    /\ i < Len(minima)
    /\ minima' = [minima EXCEPT ![i + 1] = MaximaValue(i)]
    /\ maxima' = [maxima EXCEPT ![i + 1] = MaximaValue(i)]
    /\ i' = i + 1
    /\ UNCHANGED <<spectrum, options, pc, numberPoints, windowM, windowS,
                   baseline, thrown, returned>>

\* line 68-75, one iteration
MaximaStep ==
    /\ pc = "maxima"
    /\ i < Len(minima)
    /\ maxima' = [maxima EXCEPT ![i + 1] = MaximaValue(i)]
    /\ i' = i + 1
    /\ UNCHANGED <<spectrum, options, pc, numberPoints, windowM, windowS,
                   minima, baseline, thrown, returned>>

\* line 68, the loop's exit; line 77, let i = 0
MaximaExit ==
    /\ pc = "maxima"
    /\ ~(i < Len(minima))
    /\ pc' = "smooth"
    /\ i' = 0
    /\ UNCHANGED <<spectrum, options, numberPoints, windowM, windowS,
                   minima, maxima, baseline, thrown, returned>>

SmoothValueInclusive(k) ==
    LET windowLeft  == Max(0, k - windowS)
        windowRight == Min(k + windowS + 1, Len(maxima))
    IN  xMean(subarray(maxima, windowLeft, windowRight + 1))

SmoothValuePadded(k) ==
    LET windowLeft  == Max(0, k - windowS)
        windowRight == Min(k + windowS + 1, Len(maxima))
        window      == subarray(maxima, windowLeft, windowRight)
    IN  FloatDiv(SumLoop(window, 1, window[1]), 2 * windowS + 1)

\* line 78-80
SmoothValue(k) ==
    LET windowLeft  == Max(0, k - windowS)
        windowRight == Min(k + windowS + 1, Len(maxima))
    IN  xMean(subarray(maxima, windowLeft, windowRight))

\* line 77-81, one iteration
SmoothStep ==
    /\ pc = "smooth"
    /\ i < Len(minima)
    /\ baseline' = [baseline EXCEPT ![i + 1] = SmoothValue(i)]
    /\ i' = i + 1
    /\ UNCHANGED <<spectrum, options, pc, numberPoints, windowM, windowS,
                   minima, maxima, thrown, returned>>

\* line 77, the loop's exit; line 83
Return ==
    /\ pc = "smooth"
    /\ ~(i < Len(minima))
    /\ returned' = baseline
    /\ pc' = "done"
    /\ UNCHANGED <<spectrum, options, i, numberPoints, windowM, windowS,
                   minima, maxima, baseline, thrown>>

Next ==
    \/ CheckArray
    \/ CheckEmpty
    \/ Allocate
    \/ Defaults
    \/ MinimaStep
    \/ MinimaExit
    \/ MaximaStep
    \/ MaximaExit
    \/ SmoothStep
    \/ Return

Spec == Init /\ [][Next]_vars

\* ------------------------------------------------------- the claims' terms
Signal == spectrum.data
N == Len(spectrum.data)

\* The window the specification states: max(0, k - radius) <= j < min(k + radius + 1, n).
ClaimWindow(k, radius, n) ==
    {j \in 0..(n - 1) : Max(0, k - radius) <= j /\ j < Min(k + radius + 1, n)}

SetMin(S) == CHOOSE x \in S : \A y \in S : x <= y
SetMax(S) == CHOOSE x \in S : \A y \in S : x >= y

\* Index k has been written by the pass (the pass is at a later index or over).
MinimaDone(k) == (pc = "minima" /\ k < i) \/ pc \in {"maxima", "smooth", "done"}
MaximaDone(k) == (pc = "maxima" /\ k < i) \/ pc \in {"smooth", "done"}
SmoothDone(k) == (pc = "smooth" /\ k < i) \/ pc = "done"

Allocated == pc \in {"defaults", "minima", "maxima", "smooth", "done"}
Resolved == pc \in {"minima", "maxima", "smooth", "done"}

\* The floating-point mean of seq[lo+1 .. lo+n], summed left to right.
RECURSIVE PrefixSum(_, _, _)
PrefixSum(seq, lo, n) ==
    IF n = 1 THEN seq[lo + 1]
    ELSE FloatAdd(PrefixSum(seq, lo, n - 1), seq[lo + n])

WindowMean(seq, W) ==
    FloatDiv(PrefixSum(seq, SetMin(W), Cardinality(W)), Cardinality(W))

IsConstant(c) == N >= 1 /\ \A k \in 1..N : Signal[k] = c

Representable(x) == FloatRound(x, 1) = x
\* Adding n copies of c one by one never rounds.
ExactSum(c, n) == \A m \in 1..n : Representable(m * c)

\* ---------------------------------------------------------------------- C1
\* C1: for every index i the minima pass sets minima[i] to the minimum of
\* signal[j] over exactly the j with max(0, i - windowM) <= j <
\* min(i + windowM + 1, N), the right bound exclusive.
C1_MinimaOverExclusiveWindow ==
    \A k \in 0..(N - 1) :
        MinimaDone(k) =>
            minima[k + 1] = SetMin({Signal[j + 1] : j \in ClaimWindow(k, windowM, N)})

\* ---------------------------------------------------------------------- C2
\* C2: for every index i the maxima pass sets maxima[i] to the maximum of
\* minima[j] over exactly the j with max(0, i - windowM) <= j <
\* min(i + windowM + 1, N), the right bound exclusive.
C2_MaximaOverExclusiveWindow ==
    \A k \in 0..(N - 1) :
        MaximaDone(k) =>
            maxima[k + 1] = SetMax({minima[j + 1] : j \in ClaimWindow(k, windowM, N)})

\* ---------------------------------------------------------------------- C3
\* C3: for every index i the smoothing pass sets baseline[i] to the unweighted
\* floating-point mean of maxima[j] over exactly the j with
\* max(0, i - windowS) <= j < min(i + windowS + 1, N): the window is clipped,
\* never padded, and its radius is windowS whatever windowM is.
C3_BaselineIsClippedMean ==
    \A k \in 0..(N - 1) :
        SmoothDone(k) =>
            baseline[k + 1] = WindowMean(maxima, ClaimWindow(k, windowS, N))

\* A finished run with different radii, a window clipped at the left end and a
\* full window in the interior, over maxima that are not all equal.
C3_Witness ==
    /\ pc = "done"
    /\ windowS = 1
    /\ windowM = 0
    /\ N >= 4
    /\ maxima[1] # maxima[2]
    /\ maxima[2] # maxima[3]
    /\ baseline[1] # baseline[2]

\* ---------------------------------------------------------------------- C4
\* C4: an empty spectrum raises the empty-input error and a null or non-array
\* argument raises the invalid-input error, each before any buffer is
\* allocated or written; a run ends with an error or with a full baseline,
\* never both.
C4_ErrorsBeforeComputation ==
    /\ NotArrayError # EmptyError
    /\ (spectrum.kind # "array" /\ pc # "checkArray")
           => (pc = "thrown" /\ thrown = NotArrayError)
    /\ (spectrum.kind = "array" /\ N = 0 /\ pc \notin {"checkArray", "checkEmpty"})
           => (pc = "thrown" /\ thrown = EmptyError)
    /\ (thrown # "" \/ pc = "thrown")
           => /\ pc = "thrown"
              /\ thrown \in {NotArrayError, EmptyError}
              /\ numberPoints = 0
              /\ minima = <<>> /\ maxima = <<>> /\ baseline = <<>>
              /\ returned = <<>>
    /\ pc = "done"
           => (thrown = "" /\ spectrum.kind = "array" /\ N >= 1 /\ Len(returned) = N)

C4_Witness ==
    /\ spectrum.kind = "array"
    /\ N = 0
    /\ pc = "thrown"
    /\ thrown = EmptyError

\* ---------------------------------------------------------------------- C5
\* C5: for every valid spectrum of length N >= 1 and every window
\* configuration, minima, maxima and baseline have length N, and the returned
\* baseline has length exactly N.
C5_LengthsPreserved ==
    /\ Allocated =>
           /\ N >= 1
           /\ numberPoints = N
           /\ Len(minima) = N /\ Len(maxima) = N /\ Len(baseline) = N
    /\ pc = "done" => Len(returned) = N

C5_Witness ==
    /\ pc = "done"
    /\ DOMAIN options = {}
    /\ N > MaxLen
    /\ Len(returned) = N

\* ---------------------------------------------------------------------- C6
\* C6: a zero radius makes its pass a copy: with windowM = 0, minima[i] =
\* signal[i] and maxima[i] = signal[i]; with windowS = 0, baseline[i] =
\* maxima[i]; with both zero the spectrum is returned unchanged.
C6_ZeroRadiusIsCopy ==
    /\ (Resolved /\ windowM = 0) =>
           \A k \in 0..(N - 1) :
               /\ MinimaDone(k) => minima[k + 1] = Signal[k + 1]
               /\ MaximaDone(k) => maxima[k + 1] = Signal[k + 1]
    /\ (Resolved /\ windowS = 0) =>
           \A k \in 0..(N - 1) : SmoothDone(k) => baseline[k + 1] = maxima[k + 1]
    /\ (pc = "done" /\ windowM = 0 /\ windowS = 0) => returned = Signal

\* ---------------------------------------------------------------------- C7
\* C7 as stated: if every element of the spectrum equals c, then for every
\* windowM, windowS and index i, minima[i] = maxima[i] = baseline[i] = c.
C7_ConstantSignalOriginal ==
    \A c \in Values :
        IsConstant(c) =>
            \A k \in 0..(N - 1) :
                /\ MinimaDone(k) => minima[k + 1] = c
                /\ MaximaDone(k) => maxima[k + 1] = c
                /\ SmoothDone(k) => baseline[k + 1] = c

\* C7 as amended: if every element of the spectrum equals c, then minima[i] =
\* maxima[i] = c for every index i, and baseline[i] = c whenever adding the
\* window's copies of c one by one incurs no floating-point rounding (always
\* so for a window of one or two points, hence for windowS = 0).
C7_ConstantSignalAmended ==
    \A c \in Values :
        IsConstant(c) =>
            \A k \in 0..(N - 1) :
                /\ MinimaDone(k) => minima[k + 1] = c
                /\ MaximaDone(k) => maxima[k + 1] = c
                /\ SmoothDone(k) =>
                       LET n == Cardinality(ClaimWindow(k, windowS, N))
                       IN  /\ ExactSum(c, n) => baseline[k + 1] = c
                           /\ n <= 2 => baseline[k + 1] = c

\* A finished run over a constant spectrum whose interior window holds three
\* points that add up without rounding.
C7_Witness ==
    /\ pc = "done"
    /\ N >= 3
    /\ windowS = 1
    /\ windowM = 1
    /\ \E c \in Values : IsConstant(c) /\ ExactSum(c, 3) /\ baseline[2] = c

\* ---------------------------------------------------------------------- C8
\* The integer nearest to num / den, halves upwards.
NearestInteger(num, den) ==
    CHOOSE r \in 0..num : (2 * r - 1) * den <= 2 * num /\ 2 * num < (2 * r + 1) * den

\* C8: windowM and windowS are independently optional: an omitted windowM is
\* round(N * 0.04), an omitted windowS is round(N * 0.08), a supplied value is
\* used as given, and supplying one never changes the other.
C8_IndependentDefaults ==
    Resolved =>
        /\ windowM = IF "windowM" \in DOMAIN options
                     THEN options["windowM"] ELSE NearestInteger(4 * N, 100)
        /\ windowS = IF "windowS" \in DOMAIN options
                     THEN options["windowS"] ELSE NearestInteger(8 * N, 100)

\* windowM supplied, windowS defaulted to a value that is neither zero nor
\* the supplied windowM.
C8_Witness ==
    /\ pc = "done"
    /\ DOMAIN options = {"windowM"}
    /\ options["windowM"] = 2
    /\ windowM = 2
    /\ windowS = 1

\* ---------------------------------------------------------------------- C9
\* C9: the input spectrum is never modified, minima is not written once the
\* maxima pass has started, maxima is not written once the smoothing pass has
\* started, and each pass has run over all N indices when the next one starts.
C9_ForwardOnly ==
    [][ /\ spectrum' = spectrum
        /\ pc \in {"maxima", "smooth", "done"} => minima' = minima
        /\ pc \in {"smooth", "done"} => maxima' = maxima
        /\ pc = "done" => baseline' = baseline
        /\ (pc = "minima" /\ pc' = "maxima") => i = N
        /\ (pc = "maxima" /\ pc' = "smooth") => i = N
        /\ (pc = "smooth" /\ pc' = "done") => i = N
        /\ pc' = "maxima" => pc \in {"minima", "maxima"}
        /\ pc' = "smooth" => pc \in {"maxima", "smooth"}
      ]_vars

\* The maxima pass has written values that differ from the minima it read.
C9_Witness ==
    /\ pc = "smooth"
    /\ i >= 1
    /\ N >= 3
    /\ \E k \in 1..N : maxima[k] # minima[k]

\* --------------------------------------------------------------------- C10
\* C10: for every index i, minima[i] <= maxima[i] <= signal[i].
C10_EnvelopeUnderSignal ==
    \A k \in 0..(N - 1) :
        MaximaDone(k) =>
            (minima[k + 1] <= maxima[k + 1] /\ maxima[k + 1] <= Signal[k + 1])

====
